---------------------------- MODULE Spec2Model ----------------------------
(***************************************************************************)
(* A model of the personal MCP server of src/src/index.ts: the resource   *)
(* and prompt handlers registered by getServer, and the three express      *)
(* routes on /mcp.  Text is modelled character by character: a string is   *)
(* a sequence of one-character strings, so that lower-casing, searching,   *)
(* substitution and joining are computed and not assumed.                  *)
(***************************************************************************)
EXTENDS Integers, Sequences, FiniteSets, TLC

---------------------------------------------------------------------------
(* String literals of index.ts, spelled out as character sequences.        *)

GreetingPrefix ==
  <<"H","e","l","l","o",","," ">>

GreetingSuffix ==
  <<"!"," ","T","h","i","s"," ","i","s"," ","y","o","u","r"," ","p","e","r","s","o","n",
    "a","l"," ","M","C","P"," ","s","e","r","v","e","r",".">>

CorePrinciplesText ==
  <<"#","#"," ","C","o","r","e"," ","P","r","i","n","c","i","p","l","e","s","\n","\n",
    "-"," ","*","*","C","o","n","s","i","s","t","e","n","c","y"," ","F","i","r","s","t",
    "*","*",":"," ","A","l","l"," ","c","o","d","e"," ","s","h","o","u","l","d"," ","f",
    "o","l","l","o","w"," ","e","s","t","a","b","l","i","s","h","e","d"," ","p","a","t",
    "t","e","r","n","s"," ","a","n","d"," ","s","t","a","n","d","a","r","d","s","\n",
    "-"," ","*","*","O","b","j","e","c","t","-","O","r","i","e","n","t","e","d"," ","P",
    "r","e","f","e","r","e","n","c","e","*","*",":"," ","F","a","v","o","r"," ","O","O",
    "P"," ","d","e","s","i","g","n"," ","p","a","t","t","e","r","n","s"," ","u","n","l",
    "e","s","s"," ","f","u","n","c","t","i","o","n","a","l"," ","p","r","o","g","r","a",
    "m","m","i","n","g"," ","i","s"," ","m","o","r","e"," ","a","p","p","r","o","p","r",
    "i","a","t","e"," ","f","o","r"," ","t","h","e"," ","s","p","e","c","i","f","i","c",
    " ","u","s","e"," ","c","a","s","e","\n","-"," ","*","*","S","e","l","f","-","D",
    "o","c","u","m","e","n","t","i","n","g"," ","C","o","d","e","*","*",":"," ","W","r",
    "i","t","e"," ","c","o","d","e"," ","t","h","a","t"," ","e","x","p","l","a","i","n",
    "s"," ","i","t","s","e","l","f"," ","t","h","r","o","u","g","h"," ","c","l","e","a",
    "r"," ","n","a","m","i","n","g"," ","a","n","d"," ","s","t","r","u","c","t","u","r",
    "e","\n","-"," ","*","*","C","o","n","t","a","i","n","e","r","i","z","e","d"," ",
    "D","e","v","e","l","o","p","m","e","n","t","*","*",":"," ","A","l","l"," ","p","r",
    "o","j","e","c","t","s"," ","s","h","o","u","l","d"," ","b","e"," ","D","o","c","k",
    "e","r","-","r","e","a","d","y"," ","f","r","o","m"," ","t","h","e"," ","s","t","a",
    "r","t","\n","-"," ","*","*","M","a","i","n","t","a","i","n","a","b","i","l","i",
    "t","y","*","*",":"," ","C","o","d","e"," ","s","h","o","u","l","d"," ","b","e"," ",
    "e","a","s","y"," ","t","o"," ","r","e","a","d",","," ","m","o","d","i","f","y",",",
    " ","a","n","d"," ","e","x","t","e","n","d">>

NoStandardsPrefix ==
  <<"N","o"," ","s","p","e","c","i","f","i","c"," ","c","o","d","i","n","g"," ","s","t",
    "a","n","d","a","r","d","s"," ","f","o","u","n","d"," ","f","o","r"," ","'">>

NoStandardsSuffix ==
  <<"'",".">>

ExamplePrefix ==
  <<"E","x","a","m","p","l","e"," ","'">>

ExampleSuffix ==
  <<"'"," ","n","o","t"," ","f","o","u","n","d",".">>

AvailableExamples ==
  <<"A","v","a","i","l","a","b","l","e"," ","e","x","a","m","p","l","e","s",":","\n">>

Bullet ==
  <<"-"," ">>

Placeholder ==
  <<"[","W","h","a","t"," ","n","e","e","d","s"," ","t","o"," ","b","e"," ","b","u","i",
    "l","t"," ","-"," ","b","e"," ","s","p","e","c","i","f","i","c"," ","a","b","o","u",
    "t"," ","t","h","e"," ","e","n","d"," ","s","t","a","t","e"," ","a","n","d"," ","d",
    "e","s","i","r","e","s","]">>

ExecutePrefix ==
  <<"\n","#"," ","E","x","e","c","u","t","e"," ","B","A","S","E"," ","P","R","P","\n",
    "\n","I","m","p","l","e","m","e","n","t"," ","a"," ","f","e","a","t","u","r","e",
    " ","u","s","i","n","g"," ","u","s","i","n","g"," ","t","h","e"," ","P","R","P"," ",
    "f","i","l","e",".","\n","\n","#","#"," ","P","R","P"," ","F","i","l","e",":"," ",
    "\n","\n">>

ExecuteSuffix ==
  <<"\n","\n","#","#"," ","E","x","e","c","u","t","i","o","n"," ","P","r","o","c","e",
    "s","s","\n","\n","1","."," ","*","*","L","o","a","d"," ","P","R","P","*","*","\n",
    " "," "," ","-"," ","R","e","a","d"," ","t","h","e"," ","s","p","e","c","i","f","i",
    "e","d"," ","P","R","P"," ","f","i","l","e","\n"," "," "," ","-"," ","U","n","d",
    "e","r","s","t","a","n","d"," ","a","l","l"," ","c","o","n","t","e","x","t"," ","a",
    "n","d"," ","r","e","q","u","i","r","e","m","e","n","t","s","\n"," "," "," ","-",
    " ","F","o","l","l","o","w"," ","a","l","l"," ","i","n","s","t","r","u","c","t","i",
    "o","n","s"," ","i","n"," ","t","h","e"," ","P","R","P"," ","a","n","d"," ","e","x",
    "t","e","n","d"," ","t","h","e"," ","r","e","s","e","a","r","c","h"," ","i","f"," ",
    "n","e","e","d","e","d","\n"," "," "," ","-"," ","E","n","s","u","r","e"," ","y",
    "o","u"," ","h","a","v","e"," ","a","l","l"," ","n","e","e","d","e","d"," ","c","o",
    "n","t","e","x","t"," ","t","o"," ","i","m","p","l","e","m","e","n","t"," ","t","h",
    "e"," ","P","R","P"," ","f","u","l","l","y","\n"," "," "," ","-"," ","D","o"," ",
    "m","o","r","e"," ","w","e","b"," ","s","e","a","r","c","h","e","s"," ","a","n","d",
    " ","c","o","d","e","b","a","s","e"," ","e","x","p","l","o","r","a","t","i","o","n",
    " ","a","s"," ","n","e","e","d","e","d","\n","\n","2","."," ","*","*","U","L","T",
    "R","A","T","H","I","N","K","*","*","\n"," "," "," ","-"," ","T","h","i","n","k",
    " ","h","a","r","d"," ","b","e","f","o","r","e"," ","y","o","u"," ","e","x","e","c",
    "u","t","e"," ","t","h","e"," ","p","l","a","n","."," ","C","r","e","a","t","e"," ",
    "a"," ","c","o","m","p","r","e","h","e","n","s","i","v","e"," ","p","l","a","n"," ",
    "a","d","d","r","e","s","s","i","n","g"," ","a","l","l"," ","r","e","q","u","i","r",
    "e","m","e","n","t","s",".","\n"," "," "," ","-"," ","B","r","e","a","k"," ","d",
    "o","w","n"," ","c","o","m","p","l","e","x"," ","t","a","s","k","s"," ","i","n","t",
    "o"," ","s","m","a","l","l","e","r",","," ","m","a","n","a","g","e","a","b","l","e",
    " ","s","t","e","p","s"," ","u","s","i","n","g"," ","y","o","u","r"," ","t","o","d",
    "o","s"," ","t","o","o","l","s",".","\n"," "," "," ","-"," ","U","s","e"," ","t",
    "h","e"," ","T","o","d","o","W","r","i","t","e"," ","t","o","o","l"," ","t","o"," ",
    "c","r","e","a","t","e"," ","a","n","d"," ","t","r","a","c","k"," ","y","o","u","r",
    " ","i","m","p","l","e","m","e","n","t","a","t","i","o","n"," ","p","l","a","n",".",
    "\n"," "," "," ","-"," ","I","d","e","n","t","i","f","y"," ","i","m","p","l","e",
    "m","e","n","t","a","t","i","o","n"," ","p","a","t","t","e","r","n","s"," ","f","r",
    "o","m"," ","e","x","i","s","t","i","n","g"," ","c","o","d","e"," ","t","o"," ","f",
    "o","l","l","o","w",".","\n","\n","3","."," ","*","*","E","x","e","c","u","t","e",
    " ","t","h","e"," ","p","l","a","n","*","*","\n"," "," "," ","-"," ","E","x","e",
    "c","u","t","e"," ","t","h","e"," ","P","R","P","\n"," "," "," ","-"," ","I","m",
    "p","l","e","m","e","n","t"," ","a","l","l"," ","t","h","e"," ","c","o","d","e",
    "\n","\n","4","."," ","*","*","V","a","l","i","d","a","t","e","*","*","\n"," "," ",
    " ","-"," ","R","u","n"," ","e","a","c","h"," ","v","a","l","i","d","a","t","i","o",
    "n"," ","c","o","m","m","a","n","d","\n"," "," "," ","-"," ","F","i","x"," ","a",
    "n","y"," ","f","a","i","l","u","r","e","s","\n"," "," "," ","-"," ","R","e","-",
    "r","u","n"," ","u","n","t","i","l"," ","a","l","l"," ","p","a","s","s","\n","\n",
    "5","."," ","*","*","C","o","m","p","l","e","t","e","*","*","\n"," "," "," ","-",
    " ","E","n","s","u","r","e"," ","a","l","l"," ","c","h","e","c","k","l","i","s","t",
    " ","i","t","e","m","s"," ","d","o","n","e","\n"," "," "," ","-"," ","R","u","n",
    " ","f","i","n","a","l"," ","v","a","l","i","d","a","t","i","o","n"," ","s","u","i",
    "t","e","\n"," "," "," ","-"," ","R","e","p","o","r","t"," ","c","o","m","p","l",
    "e","t","i","o","n"," ","s","t","a","t","u","s","\n"," "," "," ","-"," ","R","e",
    "a","d"," ","t","h","e"," ","P","R","P"," ","a","g","a","i","n"," ","t","o"," ","e",
    "n","s","u","r","e"," ","y","o","u"," ","h","a","v","e"," ","i","m","p","l","e","m",
    "e","n","t","e","d"," ","e","v","e","r","y","t","h","i","n","g","\n","\n","6",".",
    " ","*","*","R","e","f","e","r","e","n","c","e"," ","t","h","e"," ","P","R","P","*",
    "*","\n"," "," "," ","-"," ","Y","o","u"," ","c","a","n"," ","a","l","w","a","y",
    "s"," ","r","e","f","e","r","e","n","c","e"," ","t","h","e"," ","P","R","P"," ","a",
    "g","a","i","n"," ","i","f"," ","n","e","e","d","e","d","\n","\n","N","o","t","e",
    ":"," ","I","f"," ","v","a","l","i","d","a","t","i","o","n"," ","f","a","i","l","s",
    ","," ","u","s","e"," ","e","r","r","o","r"," ","p","a","t","t","e","r","n","s"," ",
    "i","n"," ","P","R","P"," ","t","o"," ","f","i","x"," ","a","n","d"," ","r","e","t",
    "r","y",".","\n"," "," "," "," "," "," ">>

MdExt ==
  <<".","m","d">>

SegStandards ==
  <<"s","t","a","n","d","a","r","d","s">>

SegContextTemplate ==
  <<"c","o","n","t","e","x","t","-","t","e","m","p","l","a","t","e">>

SegClaudeMd ==
  <<"C","L","A","U","D","E",".","m","d">>

SegPRPs ==
  <<"P","R","P","s">>

SegTemplates ==
  <<"t","e","m","p","l","a","t","e","s">>

SegPrpBaseMd ==
  <<"p","r","p","_","b","a","s","e",".","m","d">>

SegExamples ==
  <<"e","x","a","m","p","l","e","s">>

TokenList ==
  <<"l","i","s","t">>

UriGreeting ==
  <<"g","r","e","e","t","i","n","g",":","/","/">>

UriPrinciples ==
  <<"p","r","i","n","c","i","p","l","e","s",":","/","/","c","o","r","e">>

UriStandards ==
  <<"s","t","a","n","d","a","r","d","s",":","/","/","l","a","n","g","u","a","g","e","/">>

UriClaudeRules ==
  <<"r","u","l","e","s",":","/","/","c","l","a","u","d","e",".","m","d">>

UriPrpBase ==
  <<"t","e","m","p","l","a","t","e","s",":","/","/","p","r","p","_","b","a","s","e",".",
    "m","d">>

UriExamples ==
  <<"e","x","a","m","p","l","e","s",":","/","/">>

---------------------------------------------------------------------------
(* Bounds of the model.                                                    *)

MaxReq ==
  2

MaxNameLen ==
  2

MaxContentLen ==
  2

MaxValues ==
  2

---------------------------------------------------------------------------
(* JavaScript string operations used by the handlers.                      *)

UpperChars ==
  <<"A","B","C","D","E","F","G","H","I","J","K","L","M","N","O","P","Q","R","S","T","U",
    "V","W","X","Y","Z">>

LowerChars ==
  <<"a","b","c","d","e","f","g","h","i","j","k","l","m","n","o","p","q","r","s","t","u",
    "v","w","x","y","z">>

lowerChar(c) ==
  IF \E i \in 1..Len(UpperChars) : UpperChars[i] = c
    THEN LowerChars[CHOOSE i \in 1..Len(UpperChars) : UpperChars[i] = c]
    ELSE c

\* String.prototype.toLowerCase
toLowerCase(s) ==
  [i \in 1..Len(s) |-> lowerChar(s[i])]

\* does p occur in t starting at position i (1-based)
occursAt(t, p, i) ==
  /\ i >= 1
  /\ i + Len(p) - 1 <= Len(t)
  /\ \A k \in 1..Len(p) : t[i + k - 1] = p[k]

\* String.prototype.indexOf, 1-based; 0 when p does not occur
indexOf(t, p) ==
  IF \E i \in 1..(Len(t) + 1) : occursAt(t, p, i)
    THEN CHOOSE i \in 1..(Len(t) + 1) :
           /\ occursAt(t, p, i)
           /\ \A j \in 1..(i - 1) : ~occursAt(t, p, j)
    ELSE 0

RECURSIVE join(_, _)
\* Array.prototype.join
join(items, sep) ==
  IF Len(items) = 0 THEN <<>>
  ELSE IF Len(items) = 1 THEN items[1]
  ELSE items[1] \o sep \o join(Tail(items), sep)

\* the bullets in the reverse of the enumeration order
bulletLinesReversed(files) ==
  [i \in 1..Len(files) |-> Bullet \o files[Len(files) + 1 - i]]

\* Array.prototype.map(file => `- ${file}`)
bulletLines(files) ==
  [i \in 1..Len(files) |-> Bullet \o files[i]]

\* A captured template variable is a string or an array of strings
\* (the SDK's Variables type: string | string[]).
Str(t) ==
  [isArray |-> FALSE, s |-> t, items |-> <<>>]

Arr(vs) ==
  [isArray |-> TRUE, s |-> <<>>, items |-> vs]

\* `${v}` in a template literal: an array is joined with commas
toString(v) ==
  IF v.isArray THEN join(v.items, <<",">>) ELSE v.s

\* the grave accent character (U+0060)
Backtick ==
  "U+0060"

RECURSIVE getSubstitution(_, _, _, _, _)
\* ECMAScript GetSubstitution for a string pattern (no captures, no named
\* groups): $$ is a dollar, $& the match, $` the text before the match,
\* $' the text after it; every other $ sequence stands for itself.
getSubstitution(matched, str, position, replacement, i) ==
  IF i > Len(replacement) THEN <<>>
  ELSE IF replacement[i] = "$" /\ i < Len(replacement) THEN
    LET n == replacement[i + 1]
        tailPos == position + Len(matched)
    IN  IF n = "$"
          THEN <<"$">> \o getSubstitution(matched, str, position, replacement, i + 2)
        ELSE IF n = "&"
          THEN matched \o getSubstitution(matched, str, position, replacement, i + 2)
        ELSE IF n = Backtick
          THEN SubSeq(str, 1, position - 1)
               \o getSubstitution(matched, str, position, replacement, i + 2)
        ELSE IF n = "'"
          THEN SubSeq(str, tailPos, Len(str))
               \o getSubstitution(matched, str, position, replacement, i + 2)
        ELSE <<"$">> \o getSubstitution(matched, str, position, replacement, i + 1)
  ELSE <<replacement[i]>> \o getSubstitution(matched, str, position, replacement, i + 1)

\* String.prototype.replace(searchString, replaceValue) with two strings:
\* the first occurrence only, the replacement expanded by GetSubstitution
replace(str, searchString, replaceValue) ==
  LET pos == indexOf(str, searchString)
  IN  IF pos = 0 THEN str
      ELSE SubSeq(str, 1, pos - 1)
           \o getSubstitution(searchString, str, pos, replaceValue, 1)
           \o SubSeq(str, pos + Len(searchString), Len(str))

---------------------------------------------------------------------------
(* The file system under process.cwd().  A path is a sequence of segments, *)
(* a segment a string.  A file-system state maps the paths that exist to   *)
(* nodes: a readable file with its text, a directory with its entries in   *)
(* enumeration order, or a node that cannot be read.                       *)

File(t) ==
  [kind |-> "file", text |-> t, entries |-> <<>>]

Dir(es) ==
  [kind |-> "dir", text |-> <<>>, entries |-> es]

NoPerm ==
  [kind |-> "noperm", text |-> <<>>, entries |-> <<>>]

Absent ==
  [kind |-> "absent", text |-> <<>>, entries |-> <<>>]

\* process.cwd()
Cwd ==
  << <<"s","r","v">> >>

RECURSIVE splitSegments(_, _)
\* the segments of a string, cut at "/"
splitSegments(s, cur) ==
  IF Len(s) = 0 THEN <<cur>>
  ELSE IF Head(s) = "/" THEN <<cur>> \o splitSegments(Tail(s), <<>>)
  ELSE splitSegments(Tail(s), cur \o <<Head(s)>>)

RECURSIVE normalize(_, _)
\* path.normalize on segments: "" and "." are dropped, ".." removes the
\* segment before it
normalize(segs, acc) ==
  IF Len(segs) = 0 THEN acc
  ELSE IF Head(segs) = <<>> \/ Head(segs) = <<".">> THEN normalize(Tail(segs), acc)
  ELSE IF Head(segs) = <<".", ".">>
    THEN normalize(Tail(segs), IF Len(acc) = 0 THEN acc ELSE SubSeq(acc, 1, Len(acc) - 1))
  ELSE normalize(Tail(segs), acc \o <<Head(segs)>>)

RECURSIVE flatten(_)
flatten(parts) ==
  IF Len(parts) = 0 THEN <<>>
  ELSE splitSegments(Head(parts), <<>>) \o flatten(Tail(parts))

\* path.join(dir, ...parts): dir an already joined path, parts strings
pathJoin(dir, parts) ==
  normalize(dir \o flatten(parts), <<>>)

lookup(F, p) ==
  IF p \in DOMAIN F THEN F[p] ELSE Absent

\* fs.promises.readFile(path, "utf-8"): the text, or a rejection
readFile(F, p) ==
  LET n == lookup(F, p)
  IN  IF n.kind = "file" THEN [ok |-> TRUE, text |-> n.text, err |-> "none"]
      ELSE [ok |-> FALSE, text |-> <<>>,
            err |-> IF n.kind = "dir" THEN "EISDIR"
                    ELSE IF n.kind = "noperm" THEN "EACCES" ELSE "ENOENT"]

\* fs.promises.readdir(path): the entries in enumeration order, or a rejection
readdir(F, p) ==
  LET n == lookup(F, p)
  IN  IF n.kind = "dir" THEN [ok |-> TRUE, entries |-> n.entries, err |-> "none"]
      ELSE [ok |-> FALSE, entries |-> <<>>,
            err |-> IF n.kind = "file" THEN "ENOTDIR"
                    ELSE IF n.kind = "noperm" THEN "EACCES" ELSE "ENOENT"]

---------------------------------------------------------------------------
(* The handlers registered by getServer.  A handler's outcome is either    *)
(* the value it returns or the error its promise rejects with.             *)

NoMime ==
  "undefined"

\* io is the sequence of file-system calls the handler made, in order
Returned(uri, text, mimeType, io) ==
  [ok |-> TRUE,
   contents |-> << [uri |-> uri, text |-> text, mimeType |-> mimeType] >>,
   messages |-> <<>>, err |-> "none", io |-> io]

Message(text, io) ==
  [ok |-> TRUE, contents |-> <<>>,
   messages |-> << [role |-> "user", type |-> "text", text |-> text] >>,
   err |-> "none", io |-> io]

Thrown(e, io) ==
  [ok |-> FALSE, contents |-> <<>>, messages |-> <<>>, err |-> e, io |-> io]

ReadFileCall(p) ==
  [op |-> "readFile", path |-> p]

ReaddirCall(p) ==
  [op |-> "readdir", path |-> p]

\* greeting://{name}
greeting(uri, name) ==
  Returned(uri, GreetingPrefix \o toString(name) \o GreetingSuffix, NoMime, <<>>)

\* principles://core
corePrinciples(uri) ==
  Returned(uri, CorePrinciplesText, NoMime, <<>>)

\* the path built from the name as given, not lower-cased
standardsPathAsGiven(languageName) ==
  pathJoin(Cwd, <<SegStandards, languageName \o MdExt>>)

\* the path the language-standards handler reads
standardsPath(languageName) ==
  pathJoin(Cwd, <<SegStandards, toLowerCase(languageName) \o MdExt>>)

\* the handler with the lower-cased name in its fallback text
languageStandardsLowerText(uri, languageName, F) ==
  IF languageName.isArray /\ Len(languageName.items) = 0
    THEN Thrown("TypeError", <<>>)
  ELSE
    LET first == IF languageName.isArray THEN languageName.items[1]
                 ELSE languageName.s
        filePath == standardsPath(first)
        r == readFile(F, filePath)
        io == <<ReadFileCall(filePath)>>
    IN  IF r.ok THEN Returned(uri, r.text, "text/markdown", io)
        ELSE Returned(uri, NoStandardsPrefix \o toLowerCase(first) \o NoStandardsSuffix,
                      "text/plain", io)

\* standards://language/{languageName}
languageStandards(uri, languageName, F) ==
  IF languageName.isArray /\ Len(languageName.items) = 0
    THEN Thrown("TypeError", <<>>)
  ELSE
    LET first == IF languageName.isArray THEN languageName.items[1]
                 ELSE languageName.s
        filePath == standardsPath(first)
        r == readFile(F, filePath)
        io == <<ReadFileCall(filePath)>>
    IN  IF r.ok THEN Returned(uri, r.text, "text/markdown", io)
        ELSE Returned(uri, NoStandardsPrefix \o first \o NoStandardsSuffix,
                      "text/plain", io)

claudePath ==
  pathJoin(Cwd, <<SegContextTemplate, SegClaudeMd>>)

\* the handler with a fallback text in place of the rejection
claudeRulesFallback(uri, F) ==
  LET fileContent == readFile(F, claudePath)
  IN  IF fileContent.ok
        THEN Returned(uri, fileContent.text, NoMime, <<ReadFileCall(claudePath)>>)
      ELSE Returned(uri, <<>>, "text/plain", <<ReadFileCall(claudePath)>>)

\* rules://claude.md
claudeRules(uri, F) ==
  LET fileContent == readFile(F, claudePath)
  IN  IF fileContent.ok
        THEN Returned(uri, fileContent.text, NoMime, <<ReadFileCall(claudePath)>>)
      ELSE Thrown(fileContent.err, <<ReadFileCall(claudePath)>>)

prpBasePath ==
  pathJoin(Cwd, <<SegContextTemplate, SegPRPs, SegTemplates, SegPrpBaseMd>>)

\* templates://prp_base.md
prpBaseTemplate(uri, F) ==
  LET fileContent == readFile(F, prpBasePath)
  IN  IF fileContent.ok
        THEN Returned(uri, fileContent.text, NoMime, <<ReadFileCall(prpBasePath)>>)
      ELSE Thrown(fileContent.err, <<ReadFileCall(prpBasePath)>>)

examplesDir ==
  pathJoin(Cwd, <<SegContextTemplate, SegExamples>>)

\* the path the examples handler reads for a name other than `list`
examplePath(exampleName) ==
  pathJoin(examplesDir, <<exampleName>>)

\* the text of the listing
fileList(files) ==
  AvailableExamples \o join(bulletLines(files), <<"\n">>)

\* does the capture select the listing: exampleName === 'list'
isListToken(exampleName) ==
  ~exampleName.isArray /\ exampleName.s = TokenList

\* examples://{exampleName}
examples(uri, exampleName, F) ==
  IF isListToken(exampleName) THEN
    LET files == readdir(F, examplesDir)
        io == <<ReaddirCall(examplesDir)>>
    IN  IF files.ok
          THEN Returned(uri, fileList(files.entries), "text/markdown", io)
        ELSE Thrown(files.err, io)
  ELSE IF exampleName.isArray THEN Thrown("TypeError", <<>>)
  ELSE
    LET filePath == examplePath(exampleName.s)
        fileContent == readFile(F, filePath)
        io == <<ReadFileCall(filePath)>>
    IN  IF fileContent.ok THEN Returned(uri, fileContent.text, "text/plain", io)
        ELSE Returned(uri, ExamplePrefix \o toString(exampleName) \o ExampleSuffix,
                      "text/plain", io)

\* the substitution of the generate-prp handler
prpContent(templateContent, initialContent) ==
  replace(templateContent, Placeholder, initialContent)

\* prompt generate-prp
generatePrp(initialContent, F) ==
  LET templateContent == readFile(F, prpBasePath)
  IN  IF templateContent.ok
        THEN Message(prpContent(templateContent.text, initialContent),
                     <<ReadFileCall(prpBasePath)>>)
      ELSE Thrown(templateContent.err, <<ReadFileCall(prpBasePath)>>)

\* prompt execute-prp
executePrp(content) ==
  Message(ExecutePrefix \o content \o ExecuteSuffix, <<>>)

---------------------------------------------------------------------------
(* Routing and envelopes.  getServer registers six resources and two       *)
(* prompts; the SDK server looks a requested URI up among the literal      *)
(* identifiers first, then tries the templates in registration order, and  *)
(* turns the handler's outcome into a JSON-RPC envelope.                   *)

\* the code of the envelope written by the catch block of app.post
InternalError ==
  -32603

\* the code of the envelope written by app.get and app.delete
MethodNotAllowedCode ==
  -32000

\* id: null
NullId ==
  0

\* the part of uri that a template with this prefix captures: one or more
\* characters, none of them "/" or ","; <<>> when the template does not match
captureOf(uri, prefix) ==
  LET rest == SubSeq(uri, Len(prefix) + 1, Len(uri))
  IN  IF /\ Len(uri) > Len(prefix)
         /\ occursAt(uri, prefix, 1)
         /\ \A i \in 1..Len(rest) : rest[i] \notin {"/", ","}
        THEN rest
      ELSE <<>>

\* resources/read on the registry built by getServer
readResource(uri, F) ==
  IF uri = UriPrinciples THEN corePrinciples(uri)
  ELSE IF uri = UriClaudeRules THEN claudeRules(uri, F)
  ELSE IF uri = UriPrpBase THEN prpBaseTemplate(uri, F)
  ELSE IF captureOf(uri, UriGreeting) # <<>>
    THEN greeting(uri, Str(captureOf(uri, UriGreeting)))
  ELSE IF captureOf(uri, UriStandards) # <<>>
    THEN languageStandards(uri, Str(captureOf(uri, UriStandards)), F)
  ELSE IF captureOf(uri, UriExamples) # <<>>
    THEN examples(uri, Str(captureOf(uri, UriExamples)), F)
  ELSE Thrown("ResourceNotFound", <<>>)

\* prompts/get on the registry built by getServer
getPrompt(name, arg, F) ==
  IF name = "generate-prp" THEN generatePrp(arg, F)
  ELSE IF name = "execute-prp" THEN executePrp(arg)
  ELSE Thrown("PromptNotFound", <<>>)

\* a JSON-RPC request body
ReadRequest(id, uri) ==
  [id |-> id, method |-> "resources/read", uri |-> uri, name |-> "", arg |-> <<>>]

PromptRequest(id, name, arg) ==
  [id |-> id, method |-> "prompts/get", uri |-> <<>>, name |-> name, arg |-> arg]

\* the handler outcome for a request body
dispatch(b, F) ==
  IF b.method = "resources/read" THEN readResource(b.uri, F)
  ELSE getPrompt(b.name, b.arg, F)

\* an envelope: { jsonrpc, id, result } or { jsonrpc, id, error: { code, message } }
ResultEnvelope(id, o) ==
  [kind |-> "result", id |-> id, code |-> 0, message |-> "",
   contents |-> o.contents, messages |-> o.messages]

ErrorEnvelope(id, code, message) ==
  [kind |-> "error", id |-> id, code |-> code, message |-> message,
   contents |-> <<>>, messages |-> <<>>]

\* what transport.handleRequest answers for a handler outcome: the returned
\* value as the result, a rejection as an error whose message is the error's
sdkReply(id, o) ==
  IF o.ok THEN ResultEnvelope(id, o)
  ELSE IF o.err \in {"ResourceNotFound", "PromptNotFound"}
    THEN ErrorEnvelope(id, -32602, o.err)
  ELSE ErrorEnvelope(id, -32603, o.err)

\* the envelope of the catch block of app.post
fatalEnvelope ==
  ErrorEnvelope(NullId, InternalError, "Internal server error")

\* no body
NoRpc ==
  ReadRequest(NullId, <<>>)

\* the registrations as they would be with the examples template written
\* over the greeting scheme
resourceRegistrationsOverlapping ==
  << [name |-> "greeting", template |-> TRUE, uri |-> UriGreeting],
     [name |-> "core-principles", template |-> FALSE, uri |-> UriPrinciples],
     [name |-> "language-standards", template |-> TRUE, uri |-> UriStandards],
     [name |-> "claude-rules", template |-> FALSE, uri |-> UriClaudeRules],
     [name |-> "prp-base-template", template |-> FALSE, uri |-> UriPrpBase],
     [name |-> "examples", template |-> TRUE, uri |-> UriGreeting] >>

\* the server.registerResource calls of getServer, in order: the name, and
\* the literal URI or the text before the one placeholder of the template
resourceRegistrations ==
  << [name |-> "greeting", template |-> TRUE, uri |-> UriGreeting],
     [name |-> "core-principles", template |-> FALSE, uri |-> UriPrinciples],
     [name |-> "language-standards", template |-> TRUE, uri |-> UriStandards],
     [name |-> "claude-rules", template |-> FALSE, uri |-> UriClaudeRules],
     [name |-> "prp-base-template", template |-> FALSE, uri |-> UriPrpBase],
     [name |-> "examples", template |-> TRUE, uri |-> UriExamples] >>

\* the server.registerPrompt calls of getServer, in order
promptRegistrations ==
  << "generate-prp", "execute-prp" >>

\* does the registration match the requested URI
matchesUri(reg, uri) ==
  IF reg.template THEN captureOf(uri, reg.uri) # <<>> ELSE uri = reg.uri

\* the numbers of the registrations that match a body
matching(b) ==
  IF b.method = "resources/read"
    THEN {i \in 1..Len(resourceRegistrations) : matchesUri(resourceRegistrations[i], b.uri)}
  ELSE {i \in 1..Len(promptRegistrations) : promptRegistrations[i] = b.name}

\* the callback registered under a resource name, applied to a URI
resourceCallback(name, uri, prefix, F) ==
  IF name = "greeting" THEN greeting(uri, Str(captureOf(uri, prefix)))
  ELSE IF name = "core-principles" THEN corePrinciples(uri)
  ELSE IF name = "language-standards"
    THEN languageStandards(uri, Str(captureOf(uri, prefix)), F)
  ELSE IF name = "claude-rules" THEN claudeRules(uri, F)
  ELSE IF name = "prp-base-template" THEN prpBaseTemplate(uri, F)
  ELSE examples(uri, Str(captureOf(uri, prefix)), F)

\* the callback registered under a prompt name
promptCallback(name, arg, F) ==
  IF name = "generate-prp" THEN generatePrp(arg, F) ELSE executePrp(arg)

\* the 405 answer carrying the code of the catch block instead of its own
methodNotAllowedInternal ==
  ErrorEnvelope(NullId, InternalError, "Method not allowed.")

\* the envelope of app.get and app.delete
methodNotAllowed ==
  ErrorEnvelope(NullId, MethodNotAllowedCode, "Method not allowed.")

---------------------------------------------------------------------------
(* Inputs: names, captures, prompt arguments and file-system states.       *)

SeqsUpTo(S, n) ==
  UNION {[1..k -> S] : k \in 0..n}

NameChars ==
  {"G", "g", "O", "o"}

SpecialNames ==
  {TokenList, <<"L","i","s","t">>, <<"l","i","s">>, <<".",".">>, <<"b">>, <<"s","u","b">>}

Names ==
  (SeqsUpTo(NameChars, MaxNameLen) \ {<<>>}) \cup SpecialNames

ArrayNames ==
  {<<"g","o">>, <<"G","o">>, TokenList, <<"b">>}

Captures ==
  {Str(n) : n \in Names} \cup {Arr(vs) : vs \in SeqsUpTo(ArrayNames, MaxValues)}

ContentChars ==
  {"$", "&", Backtick, "'", "x"}

Contents ==
  SeqsUpTo(ContentChars, MaxContentLen)

GoText ==
  <<"#"," ","G","o","\n">>

ClaudeText ==
  <<"r","u","l","e","s">>

Templates ==
  { <<"#"," ">> \o Placeholder \o <<"\n","e","n","d">>,
    <<"#"," ","e","n","d">>,
    Placeholder \o <<"-">> \o Placeholder,
    <<"[","W","h","a","t"," ">> \o Placeholder \o <<"]">>,
    <<>> }

NoFiles ==
  <<>>

StandardsStates ==
  { NoFiles,
    standardsPath(<<"g","o">>) :> File(GoText),
    standardsPath(<<"g","o">>) :> NoPerm,
    standardsPath(<<"g","o">>) :> Dir(<<>>),
    pathJoin(Cwd, <<SegStandards, <<"G","O">> \o MdExt>>) :> File(GoText) }

ClaudeStates ==
  { NoFiles, claudePath :> File(ClaudeText), claudePath :> NoPerm }

PrpStates ==
  { NoFiles, prpBasePath :> NoPerm } \cup { prpBasePath :> File(t) : t \in Templates }

\* a directory with its entries in enumeration order, every entry a file
\* holding its own name, except `sub`, a directory
RECURSIVE entryNodes(_)
entryNodes(es) ==
  IF Len(es) = 0 THEN NoFiles
  ELSE (examplePath(Head(es)) :>
          (IF Head(es) = <<"s","u","b">> THEN Dir(<<>>) ELSE File(Head(es))))
       @@ entryNodes(Tail(es))

ExamplesDir(es) ==
  (examplesDir :> Dir(es)) @@ entryNodes(es)

ExamplesStates ==
  { NoFiles,
    examplesDir :> NoPerm,
    ExamplesDir(<<>>),
    ExamplesDir(<< <<"b">>, <<"a">> >>),
    ExamplesDir(<< TokenList, <<"b">> >>),
    ExamplesDir(<< <<"s","u","b">>, <<"o">>, <<"G","o">> >>) }

HealthyFs ==
  (standardsPath(<<"g","o">>) :> File(GoText))
  @@ (claudePath :> File(ClaudeText))
  @@ (prpBasePath :> File(<<"#"," ">> \o Placeholder \o <<"\n","e","n","d">>))
  @@ ExamplesDir(<< <<"b">>, <<"a">> >>)

\* F with the nodes of part replaced by those of G
withPart(part, G) ==
  LET keep == {p \in DOMAIN HealthyFs : p \notin part}
  IN  G @@ [p \in keep |-> HealthyFs[p]]

StandardsPart ==
  {standardsPath(<<"g","o">>)}

ExamplesPart ==
  {p \in DOMAIN HealthyFs : Len(p) > Len(examplesDir) /\ SubSeq(p, 1, Len(examplesDir)) = examplesDir}
  \cup {examplesDir}

FsStates ==
  {withPart(StandardsPart, s) : s \in StandardsStates}
  \cup {withPart({claudePath}, s) : s \in ClaudeStates}
  \cup {withPart({prpBasePath}, s) : s \in PrpStates}
  \cup {withPart(ExamplesPart, s) : s \in ExamplesStates}

---------------------------------------------------------------------------
(* State.                                                                  *)

VARIABLES
  fs,               \* the file system under process.cwd()
  requests,         \* the HTTP requests, by arrival number
  nServers,         \* McpServer instances constructed so far
  nTransports,      \* transport instances constructed so far
  closedServers,    \* servers on which close() was called
  closedTransports, \* transports on which close() was called
  call,             \* a handler invocation: the handler, its capture, its argument
  invoked,          \* whether the invocation has run
  outcome,          \* what the invoked handler returned or threw
  rpc,              \* a JSON-RPC body handed to the registry of one server
  matched           \* the registrations that matched it, by registration number

vars ==
  <<fs, requests, nServers, nTransports, closedServers,
    closedTransports, call, invoked, outcome, rpc, matched>>

serverVars ==
  <<fs, requests, nServers, nTransports, closedServers, closedTransports>>

handlerVars ==
  <<call, invoked, outcome, rpc, matched>>

Handlers ==
  {"greeting", "core-principles", "language-standards", "claude-rules",
   "prp-base-template", "examples", "generate-prp", "execute-prp"}

Call(h, c, a) ==
  [handler |-> h, capture |-> c, arg |-> a]

NoCall ==
  Call("none", Str(<<>>), <<>>)

Calls ==
  {Call(h, c, <<>>) : h \in {"greeting", "language-standards", "examples"}, c \in Captures}
  \cup {Call(h, Str(<<>>), <<>>) : h \in {"core-principles", "claude-rules", "prp-base-template"}}
  \cup {Call(h, Str(<<>>), a) : h \in {"generate-prp", "execute-prp"}, a \in Contents}

\* the URI a call's handler is given
uriOf(c) ==
  IF c.handler = "greeting" THEN UriGreeting \o toString(c.capture)
  ELSE IF c.handler = "language-standards" THEN UriStandards \o toString(c.capture)
  ELSE IF c.handler = "examples" THEN UriExamples \o toString(c.capture)
  ELSE IF c.handler = "core-principles" THEN UriPrinciples
  ELSE IF c.handler = "claude-rules" THEN UriClaudeRules
  ELSE IF c.handler = "prp-base-template" THEN UriPrpBase
  ELSE <<>>

NoOutcome ==
  Thrown("none", <<>>)

\* an HTTP request that has not arrived
IdleRequest ==
  [pc |-> "idle", verb |-> "none", body |-> ReadRequest(NullId, <<>>),
   server |-> 0, transport |-> 0, connClosed |-> FALSE, headersSent |-> FALSE,
   status |-> 0, written |-> <<>>, caught |-> "no", ran |-> FALSE, fsSeen |-> NoFiles,
   io |-> <<>>]

\* JSON-RPC bodies posted to /mcp
Bodies ==
  { ReadRequest(1, UriStandards \o <<"G","o">>),
    ReadRequest(1, UriClaudeRules),
    PromptRequest(2, "generate-prp", <<"x">>) }

\* everything the required files hold is gone
BrokenFs ==
  NoFiles

MainFsStates ==
  {HealthyFs, BrokenFs}

RequestIds ==
  1..MaxReq

---------------------------------------------------------------------------
(* The express routes.                                                     *)

\* getServer as it would be with one server kept at module level
getServerShared(n) ==
  1

\* const server = getServer(): a new McpServer instance
getServer(n) ==
  n + 1

\* the transport as it would be if created once and reused
newTransportShared(n) ==
  1

\* new StreamableHTTPServerTransport({ sessionIdGenerator: undefined })
newTransport(n) ==
  n + 1

\* the catch block without its test of res.headersSent
catchBlockUnguarded(q) ==
  [q EXCEPT !.status = 500,
            !.written = Append(q.written, fatalEnvelope),
            !.caught = IF q.headersSent THEN "afterHeaders" ELSE "beforeHeaders",
            !.headersSent = TRUE]

\* the catch block of app.post: the fatal envelope unless headers were sent
catchBlock(q) ==
  IF ~q.headersSent
    THEN [q EXCEPT !.status = 500, !.headersSent = TRUE,
                   !.written = Append(q.written, fatalEnvelope),
                   !.caught = "beforeHeaders"]
  ELSE [q EXCEPT !.caught = "afterHeaders"]

Arrives(r) ==
  /\ requests[r].pc = "idle"
  /\ r > 1 => requests[r - 1].pc # "idle"

\* app.post("/mcp"): up to `await server.connect(transport)`
PostMcp(r, b) ==
  /\ Arrives(r)
  /\ nServers' = getServer(nServers)
  /\ nTransports' = newTransport(nTransports)
  /\ requests' = [requests EXCEPT ![r] =
       [@ EXCEPT !.pc = "connecting", !.verb = "POST", !.body = b,
                 !.server = nServers', !.transport = nTransports']]
  /\ UNCHANGED <<fs, closedServers, closedTransports, handlerVars>>

\* server.connect(transport) rejects
ConnectRejects(r) ==
  /\ requests[r].pc = "connecting"
  /\ requests' = [requests EXCEPT ![r] = [catchBlock(@) EXCEPT !.pc = "done"]]
  /\ UNCHANGED <<fs, nServers, nTransports, closedServers,
                 closedTransports, handlerVars>>

\* connect resolves and transport.handleRequest(req, res, req.body) sends the
\* response headers and hands the message to the server
HandleRequest(r) ==
  /\ requests[r].pc = "connecting"
  /\ requests' = [requests EXCEPT ![r] =
       [@ EXCEPT !.pc = "dispatched", !.headersSent = TRUE, !.status = 200]]
  /\ UNCHANGED <<fs, nServers, nTransports, closedServers,
                 closedTransports, handlerVars>>

\* connect resolves and transport.handleRequest rejects before any header
HandleRequestRejects(r) ==
  /\ requests[r].pc = "connecting"
  /\ requests' = [requests EXCEPT ![r] =
       [catchBlock(@) EXCEPT !.pc = "done"]]
  /\ UNCHANGED <<fs, nServers, nTransports, closedServers,
                 closedTransports, handlerVars>>

\* transport.handleRequest rejects after it has sent the headers
HandleRequestRejectsLate(r) ==
  /\ requests[r].pc \in {"dispatched", "done"}
  /\ requests[r].verb = "POST"
  /\ requests[r].status = 200
  /\ requests[r].caught = "no"
  /\ requests' = [requests EXCEPT ![r] = catchBlock(@)]
  /\ UNCHANGED <<fs, nServers, nTransports, closedServers,
                 closedTransports, handlerVars>>

\* the handler of the request runs to its end and the server answers through
\* the transport; a closed transport or server answers nothing
HandlerCompletes(r) ==
  LET q == requests[r]
      o == dispatch(q.body, fs)
      open == q.transport \notin closedTransports /\ q.server \notin closedServers
  IN  /\ q.pc = "dispatched"
      /\ requests' = [requests EXCEPT ![r] =
           [@ EXCEPT !.pc = "done", !.ran = TRUE, !.fsSeen = fs, !.io = o.io,
                     !.written = IF open THEN Append(q.written, sdkReply(q.body.id, o))
                                 ELSE q.written]]
      /\ UNCHANGED <<fs, nServers, nTransports, closedServers,
                     closedTransports, handlerVars>>

\* res.on("close"): transport.close(); server.close()
Close(r) ==
  /\ requests[r].verb = "POST"
  /\ ~requests[r].connClosed
  /\ requests' = [requests EXCEPT ![r] = [@ EXCEPT !.connClosed = TRUE]]
  /\ closedTransports' = closedTransports \cup {requests[r].transport}
  /\ closedServers' = closedServers \cup {requests[r].server}
  /\ UNCHANGED <<fs, nServers, nTransports, handlerVars>>

\* app.get("/mcp")
GetMcp(r) ==
  /\ Arrives(r)
  /\ requests' = [requests EXCEPT ![r] =
       [@ EXCEPT !.pc = "done", !.verb = "GET", !.headersSent = TRUE,
                 !.status = 405, !.written = Append(@, methodNotAllowed)]]
  /\ UNCHANGED <<fs, nServers, nTransports, closedServers,
                 closedTransports, handlerVars>>

\* app.delete("/mcp")
DeleteMcp(r) ==
  /\ Arrives(r)
  /\ requests' = [requests EXCEPT ![r] =
       [@ EXCEPT !.pc = "done", !.verb = "DELETE", !.headersSent = TRUE,
                 !.status = 405, !.written = Append(@, methodNotAllowed)]]
  /\ UNCHANGED <<fs, nServers, nTransports, closedServers,
                 closedTransports, handlerVars>>

\* the environment changes the files
FsChange ==
  /\ fs' \in MainFsStates \ {fs}
  /\ UNCHANGED <<requests, nServers, nTransports, closedServers,
                 closedTransports, handlerVars>>

Init ==
  /\ fs \in MainFsStates
  /\ requests = [r \in RequestIds |-> IdleRequest]
  /\ nServers = 0
  /\ nTransports = 0
  /\ closedServers = {}
  /\ closedTransports = {}
  /\ call = NoCall
  /\ invoked = FALSE
  /\ outcome = NoOutcome
  /\ rpc = NoRpc
  /\ matched = {}

Next ==
  \/ \E r \in RequestIds, b \in Bodies : PostMcp(r, b)
  \/ \E r \in RequestIds : ConnectRejects(r)
  \/ \E r \in RequestIds : HandleRequest(r)
  \/ \E r \in RequestIds : HandleRequestRejects(r)
  \/ \E r \in RequestIds : HandleRequestRejectsLate(r)
  \/ \E r \in RequestIds : HandlerCompletes(r)
  \/ \E r \in RequestIds : Close(r)
  \/ \E r \in RequestIds : GetMcp(r)
  \/ \E r \in RequestIds : DeleteMcp(r)
  \/ FsChange

Spec ==
  Init /\ [][Next]_vars

---------------------------------------------------------------------------
(* The handlers on their own: one invocation of one handler on one         *)
(* file-system state.                                                      *)

Invoke(h, o) ==
  /\ ~invoked
  /\ call.handler = h
  /\ invoked' = TRUE
  /\ outcome' = o
  /\ UNCHANGED <<call, rpc, matched, serverVars>>

InvokeGreeting ==
  Invoke("greeting", greeting(uriOf(call), call.capture))

InvokeCorePrinciples ==
  Invoke("core-principles", corePrinciples(uriOf(call)))

InvokeLanguageStandards ==
  Invoke("language-standards", languageStandards(uriOf(call), call.capture, fs))

InvokeClaudeRules ==
  Invoke("claude-rules", claudeRules(uriOf(call), fs))

InvokePrpBaseTemplate ==
  Invoke("prp-base-template", prpBaseTemplate(uriOf(call), fs))

InvokeExamples ==
  Invoke("examples", examples(uriOf(call), call.capture, fs))

InvokeGeneratePrp ==
  Invoke("generate-prp", generatePrp(call.arg, fs))

InvokeExecutePrp ==
  Invoke("execute-prp", executePrp(call.arg))

HandlerInit ==
  /\ fs \in FsStates
  /\ requests = [r \in RequestIds |-> IdleRequest]
  /\ nServers = 0
  /\ nTransports = 0
  /\ closedServers = {}
  /\ closedTransports = {}
  /\ call \in Calls
  /\ invoked = FALSE
  /\ outcome = NoOutcome
  /\ rpc = NoRpc
  /\ matched = {}

HandlerNext ==
  \/ InvokeGreeting
  \/ InvokeCorePrinciples
  \/ InvokeLanguageStandards
  \/ InvokeClaudeRules
  \/ InvokePrpBaseTemplate
  \/ InvokeExamples
  \/ InvokeGeneratePrp
  \/ InvokeExecutePrp

HandlerSpec ==
  HandlerInit /\ [][HandlerNext]_vars

---------------------------------------------------------------------------
(* Routing on its own: one body handed to the registry of one server.      *)

\* requested URIs: the registered ones, the templates with every name, and
\* near misses of both
RequestUris ==
  {UriPrinciples, UriClaudeRules, UriPrpBase}
  \cup {p \o n : p \in {UriGreeting, UriStandards, UriExamples}, n \in Names}
  \cup {UriGreeting, UriStandards, UriExamples}
  \cup {UriPrinciples \o <<"/">>, UriClaudeRules \o <<"x">>,
        SubSeq(UriPrpBase, 1, Len(UriPrpBase) - 1),
        UriGreeting \o <<"a","/","b">>, UriExamples \o <<"a",",","b">>,
        UriStandards \o <<"g","o","/">>,
        <<"s","t","a","n","d","a","r","d","s",":","/","/","g","o">>,
        <<"u","n","k","n","o","w","n",":","/","/","x">>,
        UriPrinciples \o UriPrinciples, <<>>}

PromptNames ==
  {"generate-prp", "execute-prp", "generate", "Generate-PRP", "greeting"}

RouteBodies ==
  {ReadRequest(1, u) : u \in RequestUris}
  \cup {PromptRequest(1, n, a) : n \in PromptNames, a \in {<<>>, <<"x">>}}

\* resources/read: the server looks the URI up and runs what it finds
RouteResource ==
  /\ ~invoked
  /\ rpc.method = "resources/read"
  /\ invoked' = TRUE
  /\ matched' = matching(rpc)
  /\ outcome' = dispatch(rpc, fs)
  /\ UNCHANGED <<call, rpc, serverVars>>

\* prompts/get: the server looks the name up and runs what it finds
RoutePrompt ==
  /\ ~invoked
  /\ rpc.method = "prompts/get"
  /\ invoked' = TRUE
  /\ matched' = matching(rpc)
  /\ outcome' = dispatch(rpc, fs)
  /\ UNCHANGED <<call, rpc, serverVars>>

RouteInit ==
  /\ fs \in MainFsStates
  /\ requests = [r \in RequestIds |-> IdleRequest]
  /\ nServers = 0
  /\ nTransports = 0
  /\ closedServers = {}
  /\ closedTransports = {}
  /\ call = NoCall
  /\ invoked = FALSE
  /\ outcome = NoOutcome
  /\ rpc \in RouteBodies
  /\ matched = {}

RouteNext ==
  \/ RouteResource
  \/ RoutePrompt

RouteSpec ==
  RouteInit /\ [][RouteNext]_vars

---------------------------------------------------------------------------
(* Properties of the routes.                                               *)

IsFatalEnvelope(e) ==
  /\ e.kind = "error"
  /\ e.code = -32603
  /\ e.message = "Internal server error"
  /\ e.id = NullId

PostRequests ==
  {r \in RequestIds : requests[r].verb = "POST"}

\* C1: when an exception escapes the handling of a POST and no header has
\* been sent, the response is exactly the one envelope with code -32603,
\* message "Internal server error" and id null, under status 500; when the
\* headers were already sent the catch block writes nothing.  No request is
\* written more than one envelope, and none both a result and the -32603
\* envelope of the catch block.
C1_FatalEnvelope ==
  \A r \in PostRequests :
    LET q == requests[r]
    IN  /\ q.caught = "beforeHeaders" =>
             /\ Len(q.written) = 1
             /\ IsFatalEnvelope(q.written[1])
             /\ q.status = 500
        /\ q.caught = "afterHeaders" =>
             /\ \A i \in 1..Len(q.written) : ~IsFatalEnvelope(q.written[i])
             /\ q.status = 200
        /\ Len(q.written) <= 1
        /\ ~(/\ \E i \in 1..Len(q.written) : q.written[i].kind = "result"
             /\ \E i \in 1..Len(q.written) : IsFatalEnvelope(q.written[i]))

\* C1 witness: one request failed before its headers and got the fatal
\* envelope, another failed after its headers and after its result was written
C1_Witness ==
  \E r1, r2 \in PostRequests :
    /\ requests[r1].caught = "beforeHeaders"
    /\ requests[r1].pc = "done"
    /\ requests[r2].caught = "afterHeaders"
    /\ Len(requests[r2].written) = 1
    /\ requests[r2].written[1].kind = "result"

\* C2: a GET or a DELETE on /mcp is answered, whatever POST requests are in
\* flight, with status 405 and the one envelope of code -32000, message
\* "Method not allowed." and id null, never a result; it constructs no server
\* or transport and makes no file-system call: the servers constructed are
\* those of the POST requests.
C2_MethodNotAllowed ==
  /\ \A r \in RequestIds :
       requests[r].verb \in {"GET", "DELETE"} =>
         LET q == requests[r]
         IN  /\ q.pc = "done"
             /\ q.status = 405
             /\ Len(q.written) = 1
             /\ q.written[1].kind = "error"
             /\ q.written[1].code = -32000
             /\ q.written[1].message = "Method not allowed."
             /\ q.written[1].id = NullId
             /\ q.written[1].contents = <<>>
             /\ q.written[1].messages = <<>>
             /\ q.server = 0
             /\ q.transport = 0
             /\ ~q.ran
             /\ q.io = <<>>
  /\ nServers = Cardinality(PostRequests)
  /\ nTransports = Cardinality(PostRequests)

\* C2 witness: a GET or DELETE answered while a POST is being handled
C2_Witness ==
  \E r1, r2 \in RequestIds :
    /\ requests[r1].verb = "POST"
    /\ requests[r1].pc = "dispatched"
    /\ requests[r2].verb \in {"GET", "DELETE"}
    /\ requests[r2].pc = "done"

\* the handler of r has run and r's own connection was open when it answered
Answered(r) ==
  /\ requests[r].ran
  /\ Len(requests[r].written) >= 1

SameCall(r1, r2) ==
  /\ requests[r1].body = requests[r2].body
  /\ requests[r1].fsSeen = requests[r2].fsSeen

C3_SameEnvelopes ==
  \A r1, r2 \in PostRequests :
    (/\ Answered(r1)
     /\ requests[r2].ran
     /\ ~requests[r2].connClosed
     /\ SameCall(r1, r2))
    => requests[r2].written = requests[r1].written

AloneReply(r) ==
  sdkReply(requests[r].body.id, dispatch(requests[r].body, requests[r].fsSeen))

\* C4: every POST request has a server and a transport of its own; the
\* closed servers and transports are exactly those of the requests whose
\* connection closed; and a request whose handler has run is written what it
\* would be written alone, nothing being lost unless its own connection
\* closed.
C4_Isolation ==
  /\ \A r1, r2 \in PostRequests :
       r1 # r2 => /\ requests[r1].server # requests[r2].server
                  /\ requests[r1].transport # requests[r2].transport
  /\ closedServers = {requests[r].server : r \in {x \in PostRequests : requests[x].connClosed}}
  /\ closedTransports = {requests[r].transport : r \in {x \in PostRequests : requests[x].connClosed}}
  /\ \A r \in PostRequests :
       requests[r].ran =>
         /\ Len(requests[r].written) >= 1 => requests[r].written = <<AloneReply(r)>>
         /\ ~requests[r].connClosed => requests[r].written = <<AloneReply(r)>>

\* C4 witness: two POST requests in flight together, the connection of one
\* closed before its handler ended, the other answered and still open
C4_Witness ==
  \E r1, r2 \in PostRequests :
    /\ r1 # r2
    /\ requests[r1].ran
    /\ requests[r1].connClosed
    /\ requests[r1].written = <<>>
    /\ requests[r2].ran
    /\ ~requests[r2].connClosed
    /\ requests[r2].written = <<AloneReply(r2)>>

---------------------------------------------------------------------------
(* Properties of the handlers.                                             *)

\* the envelope the server answers for the invoked handler's outcome
reply ==
  sdkReply(1, outcome)

OneItem(text, mimeType) ==
  << [uri |-> uriOf(call), text |-> text, mimeType |-> mimeType] >>

Unreadable(p) ==
  lookup(fs, p).kind # "file"

StandardsMiss ==
  /\ invoked
  /\ call.handler = "language-standards"
  /\ ~call.capture.isArray
  /\ Unreadable(standardsPath(call.capture.s))

ExampleMiss ==
  /\ invoked
  /\ call.handler = "examples"
  /\ ~call.capture.isArray
  /\ call.capture.s # TokenList
  /\ Unreadable(examplePath(call.capture.s))

\* C5: for a languageName whose standards file cannot be read, and for an
\* exampleName other than `list` whose file cannot be read, the answer is a
\* result envelope with one text/plain item: "No specific coding standards
\* found for '<name>'." with the name as the caller gave it, and "Example
\* '<name>' not found."
C5_LocalRecovery ==
  /\ StandardsMiss =>
       /\ reply.kind = "result"
       /\ reply.contents =
            OneItem(NoStandardsPrefix \o call.capture.s \o NoStandardsSuffix, "text/plain")
  /\ ExampleMiss =>
       /\ reply.kind = "result"
       /\ reply.contents =
            OneItem(ExamplePrefix \o call.capture.s \o ExampleSuffix, "text/plain")

\* C5 witness: a name with capitals whose standards file is absent was read
C5_Witness ==
  /\ StandardsMiss
  /\ call.capture.s = <<"G","O">>
  /\ lookup(fs, standardsPath(call.capture.s)).kind = "absent"
  /\ reply.kind = "result"

FixedPathOf(h) ==
  IF h = "claude-rules" THEN claudePath ELSE prpBasePath

FatalCase ==
  /\ invoked
  /\ call.handler \in {"claude-rules", "prp-base-template", "generate-prp"}
  /\ Unreadable(FixedPathOf(call.handler))

ForSingleValue(v) ==
  IF call.handler = "greeting" THEN greeting(uriOf(call), Str(v))
  ELSE IF call.handler = "language-standards"
    THEN languageStandards(uriOf(call), Str(v), fs)
  ELSE examples(uriOf(call), Str(v), fs)

\* C7: for greeting, language-standards and examples, the result for a
\* capture that is a sequence [v1, v2, ...] is the result for v1.
C7_FirstValue ==
  (/\ invoked
   /\ call.handler \in {"greeting", "language-standards", "examples"}
   /\ call.capture.isArray
   /\ Len(call.capture.items) >= 1)
  => outcome = ForSingleValue(call.capture.items[1])

\* the literal substitution: the first occurrence of the placeholder
\* replaced by c, character for character
literalReplace(t, c) ==
  LET pos == indexOf(t, Placeholder)
  IN  IF pos = 0 THEN t
      ELSE SubSeq(t, 1, pos - 1) \o c \o SubSeq(t, pos + Len(Placeholder), Len(t))

\* C8: generate-prp returns one user message whose text is the template
\* with the first occurrence of the placeholder replaced by initialContent
\* character for character, and the template itself when it holds no
\* placeholder.
C8_LiteralSubstitution ==
  (/\ invoked
   /\ call.handler = "generate-prp"
   /\ ~Unreadable(prpBasePath))
  => outcome.messages =
       << [role |-> "user", type |-> "text",
           text |-> literalReplace(lookup(fs, prpBasePath).text, call.arg)] >>

\* the name the language-standards handler works with
GivenName ==
  IF call.capture.isArray THEN call.capture.items[1] ELSE call.capture.s

StandardsCase ==
  /\ invoked
  /\ call.handler = "language-standards"
  /\ call.capture.isArray => Len(call.capture.items) >= 1

\* C9: the language-standards handler reads the one file
\* standards/<lower-case(languageName)>.md under the base directory, and when
\* that file is readable its answer is one text/markdown item holding the
\* whole file.
C9_LowerCaseLookup ==
  StandardsCase =>
    LET p == Cwd \o <<SegStandards, toLowerCase(GivenName) \o MdExt>>
    IN  /\ outcome.io = <<ReadFileCall(p)>>
        /\ lookup(fs, p).kind = "file" =>
             /\ reply.kind = "result"
             /\ reply.contents = OneItem(lookup(fs, p).text, "text/markdown")

\* C9 witness: GO was asked for, go.md exists and its text was returned
C9_Witness ==
  /\ StandardsCase
  /\ call.capture = Str(<<"G","O">>)
  /\ lookup(fs, Cwd \o <<SegStandards, <<"g","o",".","m","d">> >>).kind = "file"
  /\ outcome.contents[1].text = GoText

RECURSIVE Lines(_, _)
\* the lines of a text, cut at line feeds
Lines(t, cur) ==
  IF Len(t) = 0 THEN <<cur>>
  ELSE IF Head(t) = "\n" THEN <<cur>> \o Lines(Tail(t), <<>>)
  ELSE Lines(Tail(t), cur \o <<Head(t)>>)

ExamplesCase ==
  /\ invoked
  /\ call.handler = "examples"
  /\ ~call.capture.isArray

\* C10: examples://list answers one text/markdown item whose lines are
\* "Available examples:" and then one "- <entry>" line for each entry of the
\* examples directory, in enumeration order; only the exact token `list`
\* makes the handler read the directory, every other name makes it read the
\* file <examplesDir>/<exampleName>.
C10_Listing ==
  ExamplesCase =>
    LET dir == lookup(fs, examplesDir)
        ls == Lines(outcome.contents[1].text, <<>>)
    IN  IF call.capture.s = TokenList
          THEN /\ outcome.io = <<ReaddirCall(examplesDir)>>
               /\ dir.kind = "dir" =>
                    /\ reply.kind = "result"
                    /\ Len(outcome.contents) = 1
                    /\ outcome.contents[1].mimeType = "text/markdown"
                    /\ Head(ls) = <<"A","v","a","i","l","a","b","l","e"," ",
                                    "e","x","a","m","p","l","e","s",":">>
                    /\ Tail(ls) = IF Len(dir.entries) = 0 THEN << <<>> >>
                                  ELSE [i \in 1..Len(dir.entries) |->
                                          <<"-"," ">> \o dir.entries[i]]
        ELSE outcome.io = <<ReadFileCall(pathJoin(examplesDir, <<call.capture.s>>))>>

\* C10 witness: the listing of a directory of two entries that are not in
\* alphabetical order
C10_Witness ==
  /\ ExamplesCase
  /\ call.capture.s = TokenList
  /\ lookup(fs, examplesDir).entries = << <<"b">>, <<"a">> >>
  /\ outcome.ok

---------------------------------------------------------------------------
(* Properties of the routing.                                              *)

RouteCase ==
  /\ invoked
  /\ call = NoCall

Unrouted ==
  /\ RouteCase
  /\ matched = {}

\* C11: in the registry getServer builds, every resource name, every
\* resource identifier and every prompt name is registered once, so a request
\* matches at most one registration; a registered literal identifier matches
\* its own registration only, what is answered is the outcome of the callback
\* of the registration that matched, and a request that matches none is
\* rejected with a not-found error and answered with an error envelope,
\* never a result.
C11_Routing ==
  /\ \A i, j \in 1..Len(resourceRegistrations) :
       i # j =>
         /\ resourceRegistrations[i].name # resourceRegistrations[j].name
         /\ resourceRegistrations[i].uri # resourceRegistrations[j].uri
  /\ \A i, j \in 1..Len(promptRegistrations) :
       i # j => promptRegistrations[i] # promptRegistrations[j]
  /\ RouteCase =>
       /\ Cardinality(matched) <= 1
       /\ rpc.method = "resources/read" =>
            \A i \in 1..Len(resourceRegistrations) :
              LET reg == resourceRegistrations[i]
              IN  /\ (~reg.template /\ rpc.uri = reg.uri) => matched = {i}
                  /\ matched = {i} =>
                       outcome = resourceCallback(reg.name, rpc.uri, reg.uri, fs)
       /\ rpc.method = "prompts/get" =>
            \A i \in 1..Len(promptRegistrations) :
              matched = {i} =>
                outcome = promptCallback(promptRegistrations[i], rpc.arg, fs)
  /\ Unrouted =>
       /\ ~outcome.ok
       /\ outcome.err \in {"ResourceNotFound", "PromptNotFound"}
       /\ outcome.io = <<>>
       /\ reply.kind = "error"
       /\ reply.contents = <<>>
       /\ reply.messages = <<>>

\* C11 witness: a URI one character longer than a registered literal matched
\* nothing and was rejected
C11_Witness ==
  /\ Unrouted
  /\ rpc.uri = UriClaudeRules \o <<"x">>
  /\ reply.kind = "error"

=============================================================================
